---- MODULE Spec2Model ----
(***************************************************************************)
(* Model of src/lib/spec-directory/options.ts (class SpecOptions).         *)
(*                                                                         *)
(* A SpecOptions object wraps a plain JavaScript object `data`.  A JS      *)
(* object is modelled as a function whose DOMAIN is the set of keys the    *)
(* object owns: a key that is not in the DOMAIN is a missing property, a   *)
(* key that is in the DOMAIN may still hold the value `undefined` (that is *)
(* what merge() stores under ':precision' when neither side has one).      *)
(* Object.entries() enumerates the DOMAIN, `obj[k] ?? dflt` reads through  *)
(* both a missing key and an undefined value.                              *)
(*                                                                         *)
(* Strings are sequences of one-character strings so that                  *)
(* String.prototype.includes is computed, not assumed.  Array indices are  *)
(* 1-based here (0-based in the source); findIndex's -1 is 0 here.         *)
(*                                                                         *)
(* The objects that exist are kept in `heap`, in allocation order; an      *)
(* object reference is an index into heap.  `call` records the last call:  *)
(* its operation, its receiver and arguments, and the reference returned.  *)
(***************************************************************************)
EXTENDS Integers, Sequences, FiniteSets, TLC

VARIABLES heap, call

vars == <<heap, call>>

----------------------------------------------------------------------------
(* Bounds of the model *)

\* objects that may exist at once
MaxObjs == 3

\* list entries (over the three list keys) in one decoded document
MaxEntries == 1

\* SpecChain: documents decoded before anything is derived from them
MaxLoads == 1

\* SpecChain: objects that may exist at once
MaxChainObjs == 4

----------------------------------------------------------------------------
(* Keys, values *)

IgnoreFor == ":ignore_for"
Todo == ":todo"
WarningTodo == ":warning_todo"
Precision == ":precision"

\* type OptionKey
OptionKeys == {IgnoreFor, Todo, WarningTodo}

\* the precision used when none is stored
DefaultPrecision == 10

\* an optional number: Undefined, or Num(n)
Undefined == <<>>
Num(n) == <<n>>

\* "dart-sass", "dart-sass: unsupported" (contains the former), "libsass"
Names == { <<"d">>, <<"d", "u">>, <<"l">> }

\* implementation names asked about: the names, "unsupported" (inside one entry
\* only), "other" (inside none) and the empty string (inside every entry)
Impls == Names \cup { <<"u">>, <<"o">>, <<>> }

\* precisions a document may state: 0 is falsy in JS, 10 is the default
PrecisionValues == {0, DefaultPrecision}

----------------------------------------------------------------------------
(* Helpers of the JS semantics *)

\* this.data[option] ?? []
OrEmpty(data, option) == IF option \in DOMAIN data THEN data[option] ELSE <<>>

\* this.data[':precision'] as read: undefined for a missing key too
PrecisionOf(data) == IF Precision \in DOMAIN data THEN data[Precision] ELSE Undefined

\* a ?? b on optional numbers
Coalesce(a, b) == IF a # Undefined THEN a ELSE b

\* item.includes(impl)
includes(item, impl) ==
  \E i \in 1..(Len(item) - Len(impl) + 1) : SubSeq(item, i, i + Len(impl) - 1) = impl

\* list.findLastIndex(item => item.includes(impl)), 0 when there is none
findIndex_Last(list, impl) ==
  IF \E i \in 1..Len(list) : includes(list[i], impl)
  THEN CHOOSE i \in 1..Len(list) :
         /\ includes(list[i], impl)
         /\ \A j \in (i + 1)..Len(list) : ~includes(list[j], impl)
  ELSE 0

\* list.findIndex(item => item.includes(impl)), 0 when there is none
findIndex(list, impl) ==
  IF \E i \in 1..Len(list) : includes(list[i], impl)
  THEN CHOOSE i \in 1..Len(list) :
         /\ includes(list[i], impl)
         /\ \A j \in 1..(i - 1) : ~includes(list[j], impl)
  ELSE 0

----------------------------------------------------------------------------
(* SpecOptions, on the data of one object *)

isEmpty(data) ==
  \A key \in DOMAIN data :
    IF key = Precision THEN data[key] = Num(DefaultPrecision) ELSE Len(data[key]) = 0

\* mergeOption that skips the entries of other that this already lists
mergeOption_Dedup(this, other, option) ==
  OrEmpty(this, option)
    \o SelectSeq(OrEmpty(other, option),
                 LAMBDA item : \A i \in 1..Len(OrEmpty(this, option)) :
                                  OrEmpty(this, option)[i] # item)

mergeOption(this, other, option) == OrEmpty(this, option) \o OrEmpty(other, option)

\* other.data[':precision'] || this.data[':precision']
mergePrecision_Falsy(this, other) ==
  IF PrecisionOf(other) # Undefined /\ PrecisionOf(other) # Num(0)
  THEN PrecisionOf(other) ELSE PrecisionOf(this)

\* ':precision' in other.data ? other.data[':precision'] : this.data[':precision']
mergePrecision_OwnKey(this, other) ==
  IF Precision \in DOMAIN other THEN other[Precision] ELSE PrecisionOf(this)

mergePrecision(this, other) == Coalesce(PrecisionOf(other), PrecisionOf(this))

merge(this, other) ==
  [key \in OptionKeys \cup {Precision} |->
     IF key = Precision THEN mergePrecision(this, other)
     ELSE mergeOption(this, other, key)]

hasForImpl(data, impl, option) ==
  /\ option \in DOMAIN data
  /\ \E i \in 1..Len(data[option]) : includes(data[option][i], impl)

\* getMode that asks for ':todo' first
getMode_TodoFirst(data, impl) ==
  IF hasForImpl(data, impl, Todo) THEN "todo"
  ELSE IF hasForImpl(data, impl, IgnoreFor) THEN "ignore"
  ELSE "undefined"

getMode(data, impl) ==
  IF hasForImpl(data, impl, IgnoreFor) THEN "ignore"
  ELSE IF hasForImpl(data, impl, Todo) THEN "todo"
  ELSE "undefined"

isWarningTodo(data, impl) == hasForImpl(data, impl, WarningTodo)

precision(data) ==
  IF PrecisionOf(data) # Undefined THEN PrecisionOf(data)[1] ELSE DefaultPrecision

\* new SpecOptions({[optKey]: newOption}), the spread of this.data forgotten
addImpl_NoSpread(data, impl, optKey) ==
  [key \in {optKey} |-> Append(OrEmpty(data, optKey), impl)]

addImpl(data, impl, optKey) ==
  [key \in DOMAIN data \cup {optKey} |->
     IF key = optKey THEN Append(OrEmpty(data, optKey), impl) ELSE data[key]]

\* the data of the object removeImpl builds once a matching entry is found at index
removeAt(data, optKey, index) ==
  IF Len(data[optKey]) = 1
  THEN [key \in DOMAIN data \ {optKey} |-> data[key]]
  ELSE [data EXCEPT ![optKey] =
          SubSeq(data[optKey], 1, index - 1)
            \o SubSeq(data[optKey], index + 1, Len(data[optKey]))]

\* the data of the object removeImpl returns (the receiver's own when nothing matches)
removeImpl(data, impl, optKey) ==
  IF optKey \notin DOMAIN data THEN data
  ELSE LET index == findIndex(data[optKey], impl)
       IN  IF index = 0 THEN data ELSE removeAt(data, optKey, index)

----------------------------------------------------------------------------
(* Calls, on the heap: the objects after the call and the reference returned *)

\* new SpecOptions(data)
New(h, data) == [heap |-> Append(h, data), ret |-> Len(h) + 1]

\* yaml.load(content) ?? {} : loaded is <<>> for an empty document, else <<mapping>>
fromYaml(h, loaded) ==
  New(h, IF loaded = <<>> THEN [key \in {} |-> <<>>] ELSE loaded[1])

mergeCall(h, self, other) == New(h, merge(h[self], h[other]))

\* this.data[optKey].push(impl); return this
addImplCall_InPlace(h, self, impl, optKey) ==
  [heap |-> [h EXCEPT ![self] = addImpl(h[self], impl, optKey)], ret |-> self]

addImplCall(h, self, impl, optKey) == New(h, addImpl(h[self], impl, optKey))

\* `return this` when the key is missing or nothing matches, else a new object
removeImplCall(h, self, impl, optKey) ==
  IF optKey \notin DOMAIN h[self] \/ findIndex(h[self][optKey], impl) = 0
  THEN [heap |-> h, ret |-> self]
  ELSE New(h, removeImpl(h[self], impl, optKey))

----------------------------------------------------------------------------
(* Decoded documents *)

RECURSIVE SeqsUpTo(_, _)
SeqsUpTo(S, n) ==
  IF n = 0 THEN { <<>> }
  ELSE LET shorter == SeqsUpTo(S, n - 1)
       IN  shorter \cup { Append(s, x) : s \in { t \in shorter : Len(t) = n - 1 }, x \in S }

\* mappings over the four keys: a list key is missing or holds a non-empty list
ListParts ==
  UNION { [ks -> SeqsUpTo(Names, MaxEntries) \ { <<>> }] : ks \in SUBSET OptionKeys }

Entries(part) ==
  LET RECURSIVE Sum(_)
      Sum(ks) == IF ks = {} THEN 0
                 ELSE LET k == CHOOSE x \in ks : TRUE
                      IN  Len(part[k]) + Sum(ks \ {k})
  IN  Sum(DOMAIN part)

WithPrecision(part, p) ==
  [key \in DOMAIN part \cup {Precision} |-> IF key = Precision THEN Num(p) ELSE part[key]]

Docs ==
  LET parts == { part \in ListParts : Entries(part) <= MaxEntries }
  IN  parts \cup { WithPrecision(part, p) : part \in parts, p \in PrecisionValues }

\* what yaml.load returns: nothing, or a mapping
Loaded == { <<>> } \cup { <<doc>> : doc \in Docs }

----------------------------------------------------------------------------
(* The state machine *)

\* out: <<>> for a call that returns an object (then ret is its reference), else <<value>>
NoCall ==
  [op |-> "none", self |-> 0, other |-> 0, impl |-> <<>>, key |-> "", ret |-> 0, out |-> <<>>]

Init ==
  /\ heap = <<>>
  /\ call = NoCall

\* Every call is made while fewer than `limit` objects exist.  Its receiver is any
\* object, or (newest) the object made last.
Receivers(newest) == IF newest THEN {Len(heap)} \ {0} ELSE DOMAIN heap

FromYaml(limit) ==
  /\ Len(heap) < limit
  /\ \E loaded \in Loaded :
       LET r == fromYaml(heap, loaded)
       IN  /\ heap' = r.heap
           /\ call' = [NoCall EXCEPT !.op = "fromYaml", !.ret = r.ret]

Merge(limit, newest) ==
  /\ Len(heap) < limit
  /\ \E self \in Receivers(newest), other \in DOMAIN heap :
       LET r == mergeCall(heap, self, other)
       IN  /\ heap' = r.heap
           /\ call' = [NoCall EXCEPT !.op = "merge", !.self = self, !.other = other,
                                     !.ret = r.ret]

AddImpl(limit, newest) ==
  /\ Len(heap) < limit
  /\ \E self \in Receivers(newest), impl \in Names, optKey \in OptionKeys :
       LET r == addImplCall(heap, self, impl, optKey)
       IN  /\ heap' = r.heap
           /\ call' = [NoCall EXCEPT !.op = "addImpl", !.self = self, !.impl = impl,
                                     !.key = optKey, !.ret = r.ret]

RemoveImpl(limit, newest) ==
  /\ Len(heap) < limit
  /\ \E self \in Receivers(newest), impl \in Names, optKey \in OptionKeys :
       LET r == removeImplCall(heap, self, impl, optKey)
       IN  /\ heap' = r.heap
           /\ call' = [NoCall EXCEPT !.op = "removeImpl", !.self = self, !.impl = impl,
                                     !.key = optKey, !.ret = r.ret]

IsEmpty(limit, newest) ==
  /\ Len(heap) < limit
  /\ \E self \in Receivers(newest) :
       call' = [NoCall EXCEPT !.op = "isEmpty", !.self = self,
                              !.out = <<isEmpty(heap[self])>>]
  /\ UNCHANGED heap

GetMode(limit, newest) ==
  /\ Len(heap) < limit
  /\ \E self \in Receivers(newest), impl \in Impls :
       call' = [NoCall EXCEPT !.op = "getMode", !.self = self, !.impl = impl,
                              !.out = <<getMode(heap[self], impl)>>]
  /\ UNCHANGED heap

IsWarningTodo(limit, newest) ==
  /\ Len(heap) < limit
  /\ \E self \in Receivers(newest), impl \in Impls :
       call' = [NoCall EXCEPT !.op = "isWarningTodo", !.self = self, !.impl = impl,
                              !.out = <<isWarningTodo(heap[self], impl)>>]
  /\ UNCHANGED heap

GetPrecision(limit, newest) ==
  /\ Len(heap) < limit
  /\ \E self \in Receivers(newest) :
       call' = [NoCall EXCEPT !.op = "precision", !.self = self,
                              !.out = <<precision(heap[self])>>]
  /\ UNCHANGED heap

Next ==
  \/ FromYaml(MaxObjs)
  \/ Merge(MaxObjs, FALSE)
  \/ AddImpl(MaxObjs, FALSE)
  \/ RemoveImpl(MaxObjs, FALSE)
  \/ IsEmpty(MaxObjs, FALSE)
  \/ GetMode(MaxObjs, FALSE)
  \/ IsWarningTodo(MaxObjs, FALSE)
  \/ GetPrecision(MaxObjs, FALSE)

Spec == Init /\ [][Next]_vars

\* A chain of calls, each on the object the call before it made, from the
\* documents decoded first.
NextChain ==
  \/ FromYaml(MaxLoads)
  \/ Merge(MaxChainObjs, TRUE)
  \/ AddImpl(MaxChainObjs, TRUE)
  \/ RemoveImpl(MaxChainObjs, TRUE)
  \/ IsEmpty(MaxChainObjs, TRUE)
  \/ GetMode(MaxChainObjs, TRUE)
  \/ IsWarningTodo(MaxChainObjs, TRUE)
  \/ GetPrecision(MaxChainObjs, TRUE)

SpecChain == Init /\ [][NextChain]_vars

----------------------------------------------------------------------------
(* Vocabulary of the properties, stated apart from the operators above *)

\* impl occurs in item: item = prefix \o impl \o suffix
Contains(item, impl) ==
  \E a \in 0..Len(item) : \E b \in a..Len(item) : SubSeq(item, a + 1, b) = impl

\* the indices of the entries of list that contain impl
Matches(list, impl) == { i \in 1..Len(list) : Contains(list[i], impl) }

FirstMatch(list, impl) ==
  CHOOSE i \in Matches(list, impl) : \A j \in Matches(list, impl) : i <= j

\* the same answers to every query
ObsEq(x, y) ==
  /\ precision(x) = precision(y)
  /\ \A impl \in Impls :
       /\ getMode(x, impl) = getMode(y, impl)
       /\ isWarningTodo(x, impl) = isWarningTodo(y, impl)

\* every list missing or of length 0, the precision missing, undefined or the default
SemEmpty(data) ==
  /\ \A key \in OptionKeys : Len(OrEmpty(data, key)) = 0
  /\ PrecisionOf(data) \in {Undefined, Num(DefaultPrecision)}

\* nothing but one entry under optKey
OnlyEntry(data, optKey) ==
  /\ Len(OrEmpty(data, optKey)) = 1
  /\ \A key \in OptionKeys \ {optKey} : Len(OrEmpty(data, key)) = 0
  /\ PrecisionOf(data) \in {Undefined, Num(DefaultPrecision)}

Self == heap[call.self]
Other == heap[call.other]
Ret == heap[call.ret]

----------------------------------------------------------------------------
(* Properties *)

\* C1: merging with a semantically empty record (every list missing or empty,
\* precision missing or 10), on either side, gives a record that answers getMode,
\* isWarningTodo and precision as the other record does.
C1_MergeWithEmptyIsIdentity ==
  call.op = "merge" =>
    /\ SemEmpty(Other) => ObsEq(Ret, Self)
    /\ SemEmpty(Self) => ObsEq(Ret, Other)

\* C2: for every record that exists, isEmpty is true exactly when every list is
\* missing or empty and the precision is missing or 10.
C2_IsEmptyIffInert ==
  \A i \in DOMAIN heap : isEmpty(heap[i]) <=> SemEmpty(heap[i])

\* C3: merge is associative: a.merge(b).merge(c) and a.merge(b.merge(c)) hold the
\* same three lists, entry by entry, and the same precision.
C3_MergeAssociative ==
  \A a \in DOMAIN heap, b \in DOMAIN heap, c \in DOMAIN heap :
    merge(merge(heap[a], heap[b]), heap[c]) = merge(heap[a], merge(heap[b], heap[c]))

\* three records with an entry each under one key, the first with a precision and
\* the others without
C3_Witness ==
  \E a \in DOMAIN heap, b \in DOMAIN heap, c \in DOMAIN heap, key \in OptionKeys :
    /\ Len(OrEmpty(heap[a], key)) > 0
    /\ Len(OrEmpty(heap[b], key)) > 0
    /\ Len(OrEmpty(heap[c], key)) > 0
    /\ heap[a][key] # heap[b][key] /\ heap[b][key] # heap[c][key]
    /\ PrecisionOf(heap[a]) # Undefined
    /\ PrecisionOf(heap[b]) = Undefined
    /\ PrecisionOf(heap[c]) = Undefined

\* C4: each list of self.merge(other) is self's list (empty if missing) followed by
\* other's (empty if missing): same order, self's entries first, nothing dropped,
\* so the length is the sum of the two lengths.
C4_MergeConcatenates ==
  call.op = "merge" =>
    \A key \in OptionKeys :
      LET mine == OrEmpty(Self, key)
          theirs == OrEmpty(Other, key)
      IN  /\ key \in DOMAIN Ret
          /\ Len(Ret[key]) = Len(mine) + Len(theirs)
          /\ \A i \in 1..Len(mine) : Ret[key][i] = mine[i]
          /\ \A i \in 1..Len(theirs) : Ret[key][Len(mine) + i] = theirs[i]

\* a merge of two lists that share an entry
C4_Witness ==
  /\ call.op = "merge"
  /\ \E key \in OptionKeys :
       /\ Len(OrEmpty(Self, key)) > 0
       /\ \E i \in 1..Len(OrEmpty(Self, key)), j \in 1..Len(OrEmpty(Other, key)) :
            Self[key][i] = Other[key][j]

C6_GetMode ==
  LET Expected(data, impl) ==
        IF IgnoreFor \in DOMAIN data /\ Matches(data[IgnoreFor], impl) # {} THEN "ignore"
        ELSE IF Todo \in DOMAIN data /\ Matches(data[Todo], impl) # {} THEN "todo"
        ELSE "undefined"
  IN  /\ \A i \in DOMAIN heap, impl \in Impls :
           getMode(heap[i], impl) = Expected(heap[i], impl)
      /\ call.op = "getMode" => call.out = <<Expected(Self, call.impl)>>

\* getMode answered 'ignore' for a name that the todo list matches too
C6_Witness ==
  /\ call.op = "getMode"
  /\ call.out = <<"ignore">>
  /\ Matches(OrEmpty(Self, Todo), call.impl) # {}
  /\ Matches(OrEmpty(Self, IgnoreFor), call.impl) # {}

\* C7: when an entry of the chosen list contains impl, removeImpl returns a record
\* whose list lacks exactly the first such entry, the others in their order; a list
\* of one entry leaves the key missing; every other field is as in the receiver.
C7_RemoveFirstMatch ==
  (call.op = "removeImpl" /\ Matches(OrEmpty(Self, call.key), call.impl) # {}) =>
    LET old == Self[call.key]
        new == OrEmpty(Ret, call.key)
        first == FirstMatch(old, call.impl)
    IN  /\ Len(new) = Len(old) - 1
        /\ \A i \in 1..(first - 1) : new[i] = old[i]
        /\ \A i \in first..Len(new) : new[i] = old[i + 1]
        /\ (call.key \in DOMAIN Ret) <=> (Len(old) # 1)
        /\ DOMAIN Ret \ {call.key} = DOMAIN Self \ {call.key}
        /\ \A key \in DOMAIN Self \ {call.key} : Ret[key] = Self[key]

\* a removal from a list in which two different entries contain impl
C7_Witness ==
  /\ call.op = "removeImpl"
  /\ \E i \in Matches(OrEmpty(Self, call.key), call.impl),
        j \in Matches(OrEmpty(Self, call.key), call.impl) :
       Self[call.key][i] # Self[call.key][j]

\* C8: removeImpl of a name matching the single entry of a record that holds
\* nothing else (however the record was made) returns a record whose isEmpty is
\* true.
C8_RemoveOnlyEntryGivesEmpty ==
  (/\ call.op = "removeImpl"
   /\ OnlyEntry(Self, call.key)
   /\ Matches(OrEmpty(Self, call.key), call.impl) # {})
    => isEmpty(Ret)

\* C9: no call changes a record that exists: after merge, addImpl and removeImpl
\* every earlier record holds the same lists and precision; removeImpl on a missing
\* list or without a match returns a record equal to its receiver.
C9_NeverMutated ==
  [][/\ \A i \in DOMAIN heap : i \in DOMAIN heap' /\ heap'[i] = heap[i]
     /\ (/\ call'.op = "removeImpl"
         /\ Matches(OrEmpty(heap[call'.self], call'.key), call'.impl) = {})
          => heap'[call'.ret] = heap[call'.self]]_vars

\* a removal that built a record while its receiver stayed
C9_Witness ==
  /\ call.op = "removeImpl"
  /\ call.ret # call.self
  /\ Ret # Self

\* C10: when no entry of r's list f contains x, r.addImpl(x, f).removeImpl(x, f)
\* answers getMode, isWarningTodo and precision as r does.
C10_AddThenRemove ==
  call.op = "removeImpl" =>
    \A r \in DOMAIN heap :
      (/\ Matches(OrEmpty(heap[r], call.key), call.impl) = {}
       /\ Self = addImpl(heap[r], call.impl, call.key))
        => ObsEq(Ret, heap[r])

\* x added to a list of other entries, on a record that states a precision, then
\* removed
C10_Witness ==
  /\ call.op = "removeImpl"
  /\ \E r \in DOMAIN heap :
       /\ Matches(OrEmpty(heap[r], call.key), call.impl) = {}
       /\ Len(OrEmpty(heap[r], call.key)) > 0
       /\ PrecisionOf(heap[r]) # Undefined
       /\ Self = addImpl(heap[r], call.impl, call.key)
       /\ call.ret # call.self

====
